---- MODULE Spec2Model ----
(***************************************************************************)
(* gowiki (src/wiki.go): a wiki server that keeps every page in the file   *)
(* <title>.txt of its working directory and serves /view/, /edit/ and      *)
(* /save/ over HTTP.                                                       *)
(*                                                                         *)
(* Strings of the program (paths, titles, file names, bodies) are TLA+     *)
(* strings; Len, \o and SubSeq act on them character by character.         *)
(*                                                                         *)
(* State: the working directory (files) and the saves that have opened     *)
(* their file and not yet written it (inflight).  History variables tell   *)
(* what the saves of a title have done.  Saves of a title that overlap in  *)
(* time, one opening the file before another has written it, form a race;  *)
(* raced holds the titles with a race under way.  settled[t] holds at most *)
(* one body.  With no race of t under way it is the body of the last save  *)
(* of t that ended, when that save was in no race and returned no error.   *)
(* During a race it is the body of the save of the race that has returned  *)
(* without error, when that is the only save of the race that has ended    *)
(* and no save has joined the race since.  last is what the most recent    *)
(* step did and answered.                                                  *)
(***************************************************************************)
EXTENDS Integers, Sequences, FiniteSets, Bags, TLC

VARIABLES files, inflight, raced, settled, last

vars == <<files, inflight, raced, settled, last>>

(***************************************************************************)
(* Bounds and input sets.                                                  *)
(***************************************************************************)
\* Longest body a form submits.
MaxBodyLen == 2

\* The number of requests a client that follows redirects is followed for.
MaxFollow == 4

\* The goroutines net/http has for requests that are inside saveHandler:
\* that many saves can be under way at the same time.
Writers == {"g1", "g2"}

RECURSIVE Repeat(_, _)
Repeat(c, n) == IF n = 0 THEN "" ELSE c \o Repeat(c, n - 1)

\* One body of each length 0..MaxBodyLen; bodies of different lengths share
\* no byte, so that the bytes of two bodies in one file can be told apart.
BodyOfLen(n) == Repeat(IF n % 2 = 1 THEN "x" ELSE "y", n)

Bodies == {BodyOfLen(n) : n \in 0..MaxBodyLen}

Titles == {"a", "Z9"}

Operations == {"view", "edit", "save"}

\* The request paths of the form /<operation>/<title>.
WellFormedPaths == {"/" \o op \o "/" \o t : op \in Operations, t \in Titles}

\* Request paths under a registered prefix that are not of that form.
MalformedPaths ==
    {"/view/", "/edit/", "/save/",
     "/view/a/b", "/save/../Z9", "/edit/a.txt", "/view/a\n"}

\* Request paths under no registered prefix.
ForeignPaths == {"/", "/view", "/View/a"}

Paths == WellFormedPaths \cup MalformedPaths \cup ForeignPaths

Methods == {"GET", "POST"}

\* A submitted form: a function from field names to values.
NoFields == [f \in {} |-> ""]

Forms == {NoFields} \cup {[f \in {"body"} |-> b] : b \in Bodies}

Requests == [path : Paths, method : Methods, form : Forms]

\* The pages a save request can carry.
Pages == [Title : Titles, Body : Bodies]

\* What a read of a file can fail with besides the file being missing.
ReadFaults == {"none", "EACCES", "EIO"}

\* How templates.ExecuteTemplate can end: without error, with an error before
\* it wrote anything to the response, or with an error after it wrote some.
RenderOutcomes == {"ok", "failsEarly", "failsLate"}

(***************************************************************************)
(* Strings.                                                                *)
(***************************************************************************)
HasPrefix(s, pre) == Len(s) >= Len(pre) /\ SubSeq(s, 1, Len(pre)) = pre

TrimPrefix(s, pre) == SubSeq(s, Len(pre) + 1, Len(s))

Digits == {"0", "1", "2", "3", "4", "5", "6", "7", "8", "9"}

LowerCase ==
    {"a", "b", "c", "d", "e", "f", "g", "h", "i", "j", "k", "l", "m",
     "n", "o", "p", "q", "r", "s", "t", "u", "v", "w", "x", "y", "z"}

UpperCase ==
    {"A", "B", "C", "D", "E", "F", "G", "H", "I", "J", "K", "L", "M",
     "N", "O", "P", "Q", "R", "S", "T", "U", "V", "W", "X", "Y", "Z"}

(***************************************************************************)
(* validPath = ^/(edit|save|view)/([a-zA-Z0-9]+)$                          *)
(***************************************************************************)
\* The character class [a-zA-Z0-9./].
TitleClassWithDotAndSlash == LowerCase \cup UpperCase \cup Digits \cup {".", "/"}

\* The character class [a-zA-Z0-9].
TitleClass == LowerCase \cup UpperCase \cup Digits

\* The alternation (edit|save|view).
Alternatives == {"edit", "save", "view"}

\* No match: FindStringSubmatch returns nil.
NoMatch == <<>>

\* validPath.FindStringSubmatch(path): <<whole match, group 1, group 2>>.
\* ^ and $ anchor the match at both ends of the path (no multi-line flag, so
\* $ does not match before a final newline); [a-zA-Z0-9]+ takes one or more
\* characters, all of the class, up to the end.
FindStringSubmatch(path) ==
    LET heads == {op \in Alternatives : HasPrefix(path, "/" \o op \o "/")}
    IN  IF heads = {} THEN NoMatch
        ELSE LET op == CHOOSE o \in heads : TRUE
                 rest == TrimPrefix(path, "/" \o op \o "/")
             IN  IF /\ Len(rest) >= 1
                    /\ \A i \in 1..Len(rest) : SubSeq(rest, i, i) \in TitleClass
                 THEN <<path, op, rest>>
                 ELSE NoMatch

(***************************************************************************)
(* main: the three subtree patterns registered with http.HandleFunc, and   *)
(* the DefaultServeMux's choice of a handler for a path.                   *)
(***************************************************************************)
Registered ==
    [pat \in {"/view/", "/save/", "/edit/"} |->
        CASE pat = "/view/" -> "viewHandler"
          [] pat = "/save/" -> "saveHandler"
          [] pat = "/edit/" -> "editHandler"]

\* A path under a registered subtree goes to that subtree's handler; the
\* subtree's root without its final slash is redirected to the root; any
\* other path is answered 404 by the mux itself.  (The mux's redirect of an
\* unclean path, one with . or .. or // in it, is not applied: such a path
\* reaches the wrapper as it is, as it does when the handler is called
\* without the mux.)
ServeMux(path) ==
    LET pats == {pat \in DOMAIN Registered : HasPrefix(path, pat)}
    IN  IF pats # {}
        THEN [kind |-> "handler", fn |-> Registered[CHOOSE pat \in pats : TRUE],
              loc |-> ""]
        ELSE IF path \o "/" \in DOMAIN Registered
        THEN [kind |-> "redirect", fn |-> "", loc |-> path \o "/"]
        ELSE [kind |-> "notfound", fn |-> "", loc |-> ""]

\* The wrapper without validation: the title is what follows the prefix.
makeHandlerUnchecked(fn, path) ==
    [call |-> fn, title |-> SubSeq(path, Len("/view/") + 1, Len(path))]

\* makeHandler(fn) applied to a request path: which function the wrapper
\* calls, and with which title.
makeHandler(fn, path) ==
    LET m == FindStringSubmatch(path)
    IN  IF m = NoMatch
        THEN [call |-> "NotFound", title |-> ""]
        ELSE [call |-> fn, title |-> m[3]]

\* What the server does with a request path: the mux, then the wrapper.
Dispatch(path) ==
    LET h == ServeMux(path)
    IN  IF h.kind = "handler"
        THEN makeHandler(h.fn, path)
        ELSE [call |-> "ServeMux", title |-> ""]

\* Dispatch, tabulated over the request paths of the model.
Route == [path \in Paths |-> Dispatch(path)]

(***************************************************************************)
(* Responses.                                                              *)
(***************************************************************************)
NoPage == [Title |-> "", Body |-> ""]

Response(status, loc, tmpl, page, err) ==
    [status |-> status, loc |-> loc, tmpl |-> tmpl, page |-> page, err |-> err]

\* No response written yet.
Pending == Response(0, "", "", NoPage, "")

\* http.NotFound
NotFound == Response(404, "", "", NoPage, "404 page not found")

\* http.Redirect(w, r, loc, code)
Redirect(loc, code) == Response(code, loc, "", NoPage, "")

\* http.Error(w, text, code)
Error(text, code) == Response(code, "", "", NoPage, text)

(***************************************************************************)
(* The page store.                                                         *)
(***************************************************************************)
\* One file for all pages, whatever the title.
FileNameShared(title) == "wiki.txt"

\* filename := p.Title + ".txt" (Page.save), filename := title + ".txt" (loadPage)
FileName(title) == title \o ".txt"

\* ioutil.ReadFile(name): the file's content, or an error.
ReadFile(fs, name, fault) ==
    IF fault # "none" THEN [data |-> "", err |-> fault]
    ELSE IF name \notin DOMAIN fs THEN [data |-> "", err |-> "ENOENT"]
    ELSE [data |-> fs[name], err |-> ""]

\* loadPage taking only a missing file for a missing page: any other error
\* of ReadFile is dropped and the page is built from what was read.
loadPageOnlyNotExist(title, fs, fault) ==
    LET filename == FileName(title)
        rd == ReadFile(fs, filename, fault)
    IN  IF rd.err = "ENOENT"
        THEN [ok |-> FALSE, page |-> NoPage, err |-> rd.err]
        ELSE [ok |-> TRUE, page |-> [Title |-> title, Body |-> rd.data], err |-> ""]

\* loadPage(title)
loadPage(title, fs, fault) ==
    LET filename == FileName(title)
        rd == ReadFile(fs, filename, fault)
    IN  IF rd.err # ""
        THEN [ok |-> FALSE, page |-> NoPage, err |-> rd.err]
        ELSE [ok |-> TRUE, page |-> [Title |-> title, Body |-> rd.data], err |-> ""]

\* OpenFile without O_TRUNC: an existing file keeps its content.
OpenFileNoTrunc(fs, name) ==
    [n \in DOMAIN fs \cup {name} |-> IF n \in DOMAIN fs THEN fs[n] ELSE ""]

\* os.OpenFile(name, O_WRONLY|O_CREATE|O_TRUNC, 0600), the first step of
\* ioutil.WriteFile: the file exists and is empty afterwards.
OpenFile(fs, name) ==
    [n \in DOMAIN fs \cup {name} |-> IF n = name THEN "" ELSE fs[n]]

\* f.Write(data) on a handle whose offset is 0: data replaces the first
\* Len(data) bytes of the file, what lies beyond them stays.
WriteAt0(fs, name, data) ==
    [fs EXCEPT ![name] = data \o SubSeq(@, Len(data) + 1, Len(@))]

(***************************************************************************)
(* Handlers.                                                               *)
(***************************************************************************)
\* renderTemplate(w, tmpl, p).  An error of ExecuteTemplate goes to
\* http.Error; when the template had already written to w, the status line
\* (200) is out and the 500 of http.Error comes too late to change it.
renderTemplate(tmpl, p, outcome) ==
    CASE outcome = "ok" -> Response(200, "", tmpl, p, "")
      [] outcome = "failsEarly" -> Response(500, "", tmpl, p, "template: " \o tmpl)
      [] outcome = "failsLate" -> Response(200, "", tmpl, p, "template: " \o tmpl)

\* viewHandler sending a missing page back to /view/.
viewHandlerRedirectsToView(title, fs, fault, outcome) ==
    LET l == loadPage(title, fs, fault)
    IN  IF ~l.ok
        THEN Redirect("/view/" \o title, 302)
        ELSE renderTemplate("view", l.page, outcome)

\* viewHandler(w, r, title)
viewHandler(title, fs, fault, outcome) ==
    LET l == loadPage(title, fs, fault)
    IN  IF ~l.ok
        THEN Redirect("/edit/" \o title, 302)
        ELSE renderTemplate("view", l.page, outcome)

\* editHandler reporting the error of loadPage instead of starting a page.
editHandlerReportsError(title, fs, fault, outcome) ==
    LET l == loadPage(title, fs, fault)
    IN  IF ~l.ok
        THEN Error(l.err, 500)
        ELSE renderTemplate("edit", l.page, outcome)

\* editHandler sending a page it cannot load back to /view/.
editHandlerRedirectsToView(title, fs, fault, outcome) ==
    LET l == loadPage(title, fs, fault)
    IN  IF ~l.ok
        THEN Redirect("/view/" \o title, 302)
        ELSE renderTemplate("edit", l.page, outcome)

\* editHandler(w, r, title)
editHandler(title, fs, fault, outcome) ==
    LET l == loadPage(title, fs, fault)
        p == IF ~l.ok THEN [Title |-> title, Body |-> ""] ELSE l.page
    IN  renderTemplate("edit", p, outcome)

\* FormValue putting a placeholder where the form has no such field.
FormValueWithPlaceholder(form, key) == IF key \in DOMAIN form THEN form[key] ELSE "x"

\* r.FormValue(key): the field's value, "" when the form has no such field.
FormValue(form, key) == IF key \in DOMAIN form THEN form[key] ELSE ""

\* saveHandler reading the form field "Body" instead of "body".
savePageWrongField(title, form) == [Title |-> title, Body |-> FormValue(form, "Body")]

\* saveHandler's Page: &Page{Title: title, Body: []byte(r.FormValue("body"))}
savePage(title, form) == [Title |-> title, Body |-> FormValue(form, "body")]

\* saveHandler not looking at the error of p.save().
saveResponseIgnoresError(title, err) == Redirect("/view/" \o title, 302)

\* saveHandler's answer once p.save() has returned err ("" for nil).
saveResponse(title, err) ==
    IF err # ""
    THEN Error(err, 500)
    ELSE Redirect("/view/" \o title, 302)

\* What a request for path is answered with, by the mux or by the function
\* makeHandler calls (fn(w, r, m[2])), when the store is fs, the read meets
\* fault, the template execution ends as outcome, and p.save() returns
\* saveErr ("" for nil).
Serve(path, fs, fault, outcome, saveErr) ==
    LET d == Route[path]
    IN  CASE d.call = "viewHandler" -> viewHandler(d.title, fs, fault, outcome)
          [] d.call = "editHandler" -> editHandler(d.title, fs, fault, outcome)
          [] d.call = "saveHandler" -> saveResponse(d.title, saveErr)
          [] d.call = "NotFound" -> NotFound
          [] OTHER -> IF ServeMux(path).kind = "redirect"
                      THEN Redirect(ServeMux(path).loc, 301)
                      ELSE NotFound

(***************************************************************************)
(* State.                                                                  *)
(***************************************************************************)
\* What a step did: the request path, the function the wrapper called and
\* its title argument, the file operation of the step with its file name,
\* the error p.save() returned ("" for nil, and when it was not called or has
\* not returned), the response written ("Pending" while a save is between
\* its open and its write), and the names of the form fields the request
\* carried when the step read the form (saveHandler's FormValue, in the
\* step that opens the file; no other step reads it).
Event(path, fn, title, op, name, saveErr, resp, fields) ==
    [path |-> path, fn |-> fn, title |-> title, op |-> op, name |-> name,
     saveErr |-> saveErr, resp |-> resp, fields |-> fields]

\* The working directory is empty when the server starts; no save is under
\* way (inflight is the bag of the pages being saved, one copy per save).
Init ==
    /\ files = [n \in {} |-> ""]
    /\ inflight = EmptyBag
    /\ raced = {}
    /\ settled = [t \in Titles |-> {}]
    /\ last = Event("", "", "", "", "", "", Pending, {})

\* The saves of title under way in the bag b.
Saving(b, title) == {p \in BagToSet(b) : p.Title = title}

(***************************************************************************)
(* Actions: one per way a request is served.                               *)
(***************************************************************************)
\* A path under no registered subtree: the mux answers.
Unrouted(path) ==
    /\ Route[path].call = "ServeMux"
    /\ last' = Event(path, "", "", "", "", "",
                     IF ServeMux(path).kind = "redirect"
                     THEN Redirect(ServeMux(path).loc, 301)
                     ELSE NotFound,
                     {})
    /\ UNCHANGED <<files, inflight, raced, settled>>

\* The wrapper finds no match: http.NotFound, and fn is not called.
Reject(path) ==
    /\ Route[path].call = "NotFound"
    /\ last' = Event(path, "", "", "", "", "", NotFound, {})
    /\ UNCHANGED <<files, inflight, raced, settled>>

\* viewHandler reads nothing of the request but the title.
View(path, fault, outcome) ==
    LET d == Route[path]
    IN  /\ d.call = "viewHandler"
        /\ last' = Event(path, d.call, d.title, "ReadFile", FileName(d.title), "",
                         viewHandler(d.title, files, fault, outcome), {})
        /\ UNCHANGED <<files, inflight, raced, settled>>

\* editHandler reads nothing of the request but the title.
Edit(path, fault, outcome) ==
    LET d == Route[path]
    IN  /\ d.call = "editHandler"
        /\ last' = Event(path, d.call, d.title, "ReadFile", FileName(d.title), "",
                         editHandler(d.title, files, fault, outcome), {})
        /\ UNCHANGED <<files, inflight, raced, settled>>

\* saveHandler up to and including WriteFile's OpenFile.  openErr is the
\* error of OpenFile ("" for none): with one, WriteFile returns it at once
\* and the file is as it was.
SaveOpen(r, openErr) ==
    LET d == Route[r.path]
        p == savePage(d.title, r.form)
        filename == FileName(p.Title)
    IN  /\ d.call = "saveHandler"
        /\ BagCardinality(inflight) < Cardinality(Writers)
        /\ IF openErr # ""
           THEN /\ last' = Event(r.path, d.call, d.title, "OpenFile", filename,
                                 openErr, saveResponse(d.title, openErr),
                                 DOMAIN r.form)
                /\ UNCHANGED <<files, inflight, raced, settled>>
           ELSE /\ files' = OpenFile(files, filename)
                /\ inflight' = inflight (+) SetToBag({p})
                /\ raced' = IF Saving(inflight, p.Title) # {}
                            THEN raced \cup {p.Title} ELSE raced
                /\ settled' = IF Saving(inflight, p.Title) # {}
                              THEN [settled EXCEPT ![p.Title] = {}] ELSE settled
                /\ last' = Event(r.path, d.call, d.title, "OpenFile", filename, "",
                                 Pending, DOMAIN r.form)

\* The rest of WriteFile and of saveHandler for the page p: f.Write(data),
\* f.Close(), the response.  written is the number of bytes f.Write
\* delivered: all of them, or fewer with a write error; closeErr is the
\* error of Close, reported when the write had none.
SaveWrite(p, written, closeErr) ==
    LET filename == FileName(p.Title)
        err == IF written < Len(p.Body) THEN "short write" ELSE closeErr
        rest == inflight (-) SetToBag({p})
    IN  /\ BagIn(p, inflight)
        /\ written \in 0..Len(p.Body)
        /\ files' = WriteAt0(files, filename, SubSeq(p.Body, 1, written))
        /\ inflight' = rest
        /\ raced' = IF Saving(rest, p.Title) # {} THEN raced ELSE raced \ {p.Title}
        /\ settled' = [settled EXCEPT
                         ![p.Title] =
                            IF err # "" THEN {}
                            ELSE IF p.Title \in raced /\ Saving(rest, p.Title) = {} THEN {}
                            ELSE {p.Body}]
        /\ last' = Event("/save/" \o p.Title, "saveHandler", p.Title, "Write",
                         filename, err, saveResponse(p.Title, err), {})

Next ==
    \/ \E path \in Paths : Unrouted(path)
    \/ \E path \in Paths : Reject(path)
    \/ \E path \in Paths : \E fault \in ReadFaults, outcome \in RenderOutcomes :
          View(path, fault, outcome)
    \/ \E path \in Paths : \E fault \in ReadFaults, outcome \in RenderOutcomes :
          Edit(path, fault, outcome)
    \/ \E r \in Requests : \E openErr \in {"", "EACCES"} : SaveOpen(r, openErr)
    \/ \E p \in Pages :
          \E written \in 0..MaxBodyLen, closeErr \in {"", "EIO"} :
             SaveWrite(p, written, closeErr)

Spec == Init /\ [][Next]_vars

(***************************************************************************)
(* Vocabulary of the claims, stated apart from the definitions above.      *)
(***************************************************************************)
Alphanumerics == "abcdefghijklmnopqrstuvwxyzABCDEFGHIJKLMNOPQRSTUVWXYZ0123456789"

Contains(s, c) == \E i \in 1..Len(s) : SubSeq(s, i, i) = c

\* A non-empty string of letters and digits only.
IsTitle(t) ==
    /\ Len(t) >= 1
    /\ \A i \in 1..Len(t) : Contains(Alphanumerics, SubSeq(t, i, i))

\* A file name of the form T.txt with T a title.
IsPageFile(n) ==
    /\ Len(n) > 4
    /\ SubSeq(n, Len(n) - 3, Len(n)) = ".txt"
    /\ IsTitle(SubSeq(n, 1, Len(n) - 4))

\* The step that led to this state served a request.
Served == last.path # ""

\* The stored body of title t is b.
Stored(t, b) == FileName(t) \in DOMAIN files /\ files[FileName(t)] = b

\* No save of title t is between its open and its write.
Quiet(t) == Saving(inflight, t) = {}

(***************************************************************************)
(* C1.  Round trip: once save(T, B) has returned without error, with no    *)
(* other save of T at work during it or since, loadPage(T) returns the     *)
(* page with Title T and Body B when the read meets no fault, and a view   *)
(* that rendered a page rendered that one.                                 *)
(***************************************************************************)
RoundTrip ==
    \A t \in Titles : \A b \in settled[t] :
        Quiet(t) =>
            /\ loadPage(t, files, "none") =
                  [ok |-> TRUE, page |-> [Title |-> t, Body |-> b], err |-> ""]
            /\ (last.fn = "viewHandler" /\ last.title = t /\ last.resp.tmpl # "")
                  => last.resp.page = [Title |-> t, Body |-> b]

\* A view has rendered the body that the last save of the page stored, and
\* the other page holds the body of its last save too.
RoundTripWitness ==
    /\ settled["a"] = {"x"}
    /\ Quiet("a")
    /\ last.fn = "viewHandler" /\ last.title = "a"
    /\ last.resp.page = [Title |-> "a", Body |-> "x"]
    /\ settled["Z9"] = {"yy"}

(***************************************************************************)
(* C2.  A request whose path is not /<operation>/<title> calls none of the *)
(* three handlers and touches no file, and when it reaches the wrapper     *)
(* (its path lies under a registered prefix) the answer is 404; a request  *)
(* whose path has that form calls the handler registered for its prefix,   *)
(* with the title as argument.                                             *)
(***************************************************************************)
UnderPrefix(path) == \E pre \in {"/view/", "/edit/", "/save/"} : HasPrefix(path, pre)

DispatchByPath ==
    Served =>
        IF last.path \in WellFormedPaths
        THEN \E op \in Operations, t \in Titles :
                /\ last.path = "/" \o op \o "/" \o t
                /\ last.fn = op \o "Handler"
                /\ last.title = t
        ELSE /\ last.fn = "" /\ last.title = ""
             /\ last.op = "" /\ last.name = ""
             /\ UnderPrefix(last.path) => last.resp = NotFound
             /\ last.resp.status \in {404, 301}

\* The bare prefix /save/ has been answered 404 while the store held a page.
DispatchByPathWitness ==
    /\ last.path = "/save/"
    /\ last.resp.status = 404
    /\ last.fn = ""
    /\ Stored("a", "x")

(***************************************************************************)
(* C3.  Path-traversal safety: every file of the store, every file a step  *)
(* has read or written and every file a save under way has opened is named *)
(* T.txt with T a non-empty string of letters and digits; a request whose  *)
(* title part contains "/" or "." touches no file.                         *)
(***************************************************************************)
\* What follows the registered prefix in the path.
TitlePart(path) == SubSeq(path, Len("/view/") + 1, Len(path))

PathTraversalSafe ==
    /\ \A n \in DOMAIN files : IsPageFile(n)
    /\ \A p \in BagToSet(inflight) : IsTitle(p.Title)
    /\ last.name # "" => IsPageFile(last.name) /\ last.name = last.title \o ".txt"
    /\ (Served /\ UnderPrefix(last.path)
           /\ (Contains(TitlePart(last.path), "/") \/ Contains(TitlePart(last.path), ".")))
          => last.op = "" /\ last.name = ""

\* A request for /save/../Z9 has come in and no file was touched for it.
PathTraversalSafeWitness ==
    /\ last.path = "/save/../Z9"
    /\ last.op = ""
    /\ DOMAIN files = {"a.txt", "Z9.txt"}

(***************************************************************************)
(* C4.  Atomicity for a single writer: while exactly one save of T is      *)
(* under way, on a page whose stored body a completed save had set to      *)
(* B_old, loadPage(T) returns B_old or the body being saved.               *)
(***************************************************************************)
AtomicSingleWriter ==
    \A t \in Titles : \A bOld \in settled[t] : \A p \in Saving(inflight, t) :
        t \notin raced =>
            LET l == loadPage(t, files, "none")
            IN  l.ok /\ l.page.Body \in {bOld, p.Body}

(***************************************************************************)
(* C5.  Last writer wins: when the second of two concurrent saves of T     *)
(* returns, both without error, the stored body of T is the body of one    *)
(* of the two.                                                             *)
(***************************************************************************)
LastWriterWins ==
    [][\A p \in Pages : \A b1 \in settled[p.Title] :
          (/\ last'.op = "Write" /\ last'.title = p.Title /\ last'.saveErr = ""
           /\ p.Title \in raced
           /\ inflight = SetToBag({p}))
          => \/ files'[FileName(p.Title)] = b1
             \/ files'[FileName(p.Title)] = p.Body]_vars

(***************************************************************************)
(* C6.  A view of a title that has no file answers 302 with Location       *)
(* /edit/<title>, renders nothing and leaves the store as it was.          *)
(***************************************************************************)
ViewOfMissingPage ==
    [][(last'.fn = "viewHandler" /\ FileName(last'.title) \notin DOMAIN files)
          => /\ last'.resp.status = 302
             /\ last'.resp.loc = "/edit/" \o last'.title
             /\ last'.resp.tmpl = "" /\ last'.resp.page = NoPage
             /\ files' = files]_vars

\* /view/Z9 was redirected to /edit/Z9 while a.txt existed and Z9.txt did not.
ViewOfMissingPageWitness ==
    /\ last.path = "/view/Z9"
    /\ last.resp.status = 302 /\ last.resp.loc = "/edit/Z9"
    /\ DOMAIN files = {"a.txt"}

(***************************************************************************)
(* C7.  An edit of a title that has no file hands the page with that title *)
(* and an empty body to the "edit" template: no redirect, no error of the  *)
(* handler's own (the status is 200 unless the template itself fails       *)
(* before writing, and is 200 whenever it does not), and the store is left *)
(* as it was.                                                              *)
(***************************************************************************)
EditOfMissingPage ==
    [][(last'.fn = "editHandler" /\ FileName(last'.title) \notin DOMAIN files)
          => /\ last'.resp.tmpl = "edit"
             /\ last'.resp.page = [Title |-> last'.title, Body |-> ""]
             /\ last'.resp.loc = ""
             /\ last'.resp.status \in {200, 500}
             /\ last'.resp.status = 500 => last'.resp.err = "template: edit"
             /\ last'.resp.err = "" => last'.resp.status = 200
             /\ editHandler(last'.title, files, "none", "ok") =
                   [status |-> 200, loc |-> "", tmpl |-> "edit",
                    page |-> [Title |-> last'.title, Body |-> ""], err |-> ""]
             /\ files' = files]_vars

\* /edit/Z9 rendered the edit template with an empty body; Z9.txt is missing.
EditOfMissingPageWitness ==
    /\ last.path = "/edit/Z9"
    /\ last.resp = [status |-> 200, loc |-> "", tmpl |-> "edit",
                    page |-> [Title |-> "Z9", Body |-> ""], err |-> ""]
    /\ DOMAIN files = {"a.txt"}

(***************************************************************************)
(* C8.  Save, then view: a save request for T whose form has body = B puts *)
(* the page (T, B) under way; a save that returns without error answers    *)
(* 302 with Location /view/T; and once it has, with no other save of T at  *)
(* work during it or since, a view of T whose read and template meet no    *)
(* fault answers 200 with the "view" template and Body B.                  *)
(***************************************************************************)
SaveThenView ==
    [][/\ (last'.op = "OpenFile" /\ last'.resp = Pending)
            => \A m \in Methods : \A form \in Forms :
                  (/\ "body" \in DOMAIN form
                   /\ SaveOpen([path |-> last'.path, method |-> m, form |-> form], ""))
                  => BagIn([Title |-> TitlePart(last'.path), Body |-> form["body"]],
                           inflight')
       /\ (last'.op = "Write" /\ last'.saveErr = "")
            => last'.resp = [status |-> 302, loc |-> "/view/" \o last'.title,
                             tmpl |-> "", page |-> NoPage, err |-> ""]
       /\ \A t \in Titles : \A b \in settled'[t] :
             Saving(inflight', t) = {}
                => viewHandler(t, files', "none", "ok") =
                      [status |-> 200, loc |-> "", tmpl |-> "view",
                       page |-> [Title |-> t, Body |-> b], err |-> ""]]_vars

\* /view/a has rendered the body "yy" that the last save of a stored.
SaveThenViewWitness ==
    /\ settled["a"] = {"yy"}
    /\ Quiet("a")
    /\ last.path = "/view/a"
    /\ last.resp = [status |-> 200, loc |-> "", tmpl |-> "view",
                    page |-> [Title |-> "a", Body |-> "yy"], err |-> ""]

(***************************************************************************)
(* C9.  saveHandler's outcome: when p.save() returns nil the answer is 302 *)
(* with Location /view/<title>; when it returns an error the answer is 500 *)
(* with the error's text and no Location, and the request ends there: no   *)
(* further save is put under way and, when the open failed, no file is     *)
(* touched.                                                                *)
(***************************************************************************)
SaveOutcome ==
    [][(last'.fn = "saveHandler" /\ last'.resp # Pending)
          => IF last'.saveErr = ""
             THEN /\ last'.resp.status = 302
                  /\ last'.resp.loc = "/view/" \o last'.title
                  /\ last'.resp.err = ""
             ELSE /\ last'.resp.status = 500
                  /\ last'.resp.err = last'.saveErr
                  /\ last'.resp.loc = ""
                  /\ BagCardinality(inflight') <= BagCardinality(inflight)
                  /\ last'.op = "OpenFile" => files' = files /\ inflight' = inflight]_vars

\* A save of a has ended with 500 "short write".
SaveOutcomeWitness ==
    /\ last.fn = "saveHandler" /\ last.op = "Write" /\ last.title = "a"
    /\ last.resp.status = 500 /\ last.resp.err = "short write"

(***************************************************************************)
(* C10.  Only POST changes the store: a GET request, to /save/<title> as   *)
(* to any other path, leaves every file as it was.                         *)
(***************************************************************************)
OnlyPostChangesStore ==
    [][last'.path \in Paths
          => \A form \in Forms : \A openErr \in {"", "EACCES"} :
                SaveOpen([path |-> last'.path, method |-> "GET", form |-> form], openErr)
                   => files' = files]_vars

(***************************************************************************)
(* C11.  A save request whose form has no "body" field is served like one  *)
(* with an empty body.  Once saveHandler has read the form and opened the  *)
(* file, the page under way is (T, "") and T.txt exists; the only error    *)
(* such a request can end with is the file system's.  A save of the empty  *)
(* body that returns without error answers 302 with Location /view/T; once *)
(* it has, with no other save of T at work during it or since, T.txt       *)
(* exists and is empty, and a view of T whose read and template meet no    *)
(* fault answers 200 with the "view" template and the empty body, not a    *)
(* redirect to /edit/T.                                                    *)
(***************************************************************************)
SaveWithoutBody ==
    /\ (last.fn = "saveHandler" /\ last.op = "OpenFile" /\ last.fields = {})
          => IF last.saveErr = ""
             THEN /\ last.resp = Pending
                  /\ BagIn([Title |-> last.title, Body |-> ""], inflight)
                  /\ FileName(last.title) \in DOMAIN files
             ELSE /\ last.saveErr = "EACCES"
                  /\ last.resp.err = last.saveErr
    /\ \A t \in Titles :
          (settled[t] = {""} /\ Quiet(t))
             => /\ Stored(t, "")
                /\ viewHandler(t, files, "none", "ok") =
                      [status |-> 200, loc |-> "", tmpl |-> "view",
                       page |-> [Title |-> t, Body |-> ""], err |-> ""]
    /\ (last.op = "Write" /\ last.saveErr = "" /\ settled[last.title] = {""})
          => last.resp = [status |-> 302, loc |-> "/view/" \o last.title,
                          tmpl |-> "", page |-> NoPage, err |-> ""]

\* A save request for Z9 with no body field has opened Z9.txt, over the
\* stored body "yy": the page under way has the empty body.
SaveWithoutBodyWitness ==
    /\ last.path = "/save/Z9" /\ last.op = "OpenFile" /\ last.fields = {}
    /\ last.resp = Pending
    /\ settled["Z9"] = {"yy"}
    /\ inflight = SetToBag({[Title |-> "Z9", Body |-> ""]})

(***************************************************************************)
(* C12.  Read failures are uniform.  In every state, for every title T and *)
(* every cause the read of T.txt can fail of there (the file is missing,   *)
(* or the read is refused or breaks off though the file exists): loadPage  *)
(* returns no page; viewHandler answers                                    *)
(* 302 with Location /edit/T and renders nothing; editHandler hands the    *)
(* page (T, "") to the "edit" template, with status 200 when the template  *)
(* executes; the answers do not depend on the cause.  A step that reads a  *)
(* file leaves the files as they were, and a view that rendered nothing is *)
(* that redirect.                                                          *)
(***************************************************************************)
ReadFailuresUniform ==
    /\ [](\A t \in Titles : \A fault \in ReadFaults :
             (fault # "none" \/ FileName(t) \notin DOMAIN files)
                => /\ ~loadPage(t, files, fault).ok
                   /\ loadPage(t, files, fault).page = NoPage
                   /\ \A outcome \in RenderOutcomes :
                         /\ viewHandler(t, files, fault, outcome) =
                               [status |-> 302, loc |-> "/edit/" \o t,
                                tmpl |-> "", page |-> NoPage, err |-> ""]
                         /\ editHandler(t, files, fault, outcome).tmpl = "edit"
                         /\ editHandler(t, files, fault, outcome).page =
                               [Title |-> t, Body |-> ""]
                         /\ editHandler(t, files, fault, outcome).loc = ""
                         /\ editHandler(t, files, fault, outcome) =
                               editHandler(t, files, "EIO", outcome)
                   /\ editHandler(t, files, fault, "ok").status = 200)
    /\ [][last'.op = "ReadFile"
             => /\ (last'.fn = "viewHandler" /\ last'.resp.tmpl = "")
                      => last'.resp = [status |-> 302,
                                       loc |-> "/edit/" \o last'.title,
                                       tmpl |-> "", page |-> NoPage, err |-> ""]
                /\ (last'.fn = "editHandler" /\ last'.resp.status # 200)
                      => last'.resp.err = "template: edit"
                /\ files' = files]_vars

\* /view/a was answered with the redirect to /edit/a though a.txt exists and
\* holds "x", with no save of a under way: its read failed.
ReadFailuresUniformWitness ==
    /\ last.path = "/view/a"
    /\ last.resp.status = 302 /\ last.resp.loc = "/edit/a"
    /\ Stored("a", "x") /\ Quiet("a")

(***************************************************************************)
(* C13.  A render failure is a 500: whenever the template execution of a   *)
(* view or edit request fails, the response has status 500.                *)
(***************************************************************************)
RenderFailureIs500 ==
    (/\ last.fn \in {"viewHandler", "editHandler"}
     /\ last.resp.tmpl # ""
     /\ last.resp.err # "")
       => last.resp.status = 500

(***************************************************************************)
(* C14.  Frame.  A step of a view, of an edit, of a rejected request or of *)
(* the mux leaves every file as it was; a step of a save request for T     *)
(* (its open, its write) leaves every file other than T.txt as it was:     *)
(* none is created, removed or changed.  This holds of every step of every *)
(* interleaving.                                                           *)
(***************************************************************************)
FrameOfRequests ==
    [][/\ last'.fn # "saveHandler" => files' = files
       /\ last'.fn = "saveHandler"
             => \A n \in (DOMAIN files \cup DOMAIN files') \ {last'.title \o ".txt"} :
                   /\ n \in DOMAIN files
                   /\ n \in DOMAIN files'
                   /\ files'[n] = files[n]]_vars

\* A save of a has written "x" to a.txt while a save of Z9 was between its
\* open and its write.
FrameOfRequestsWitness ==
    /\ last.op = "Write" /\ last.title = "a" /\ last.saveErr = ""
    /\ Stored("a", "x")
    /\ inflight = SetToBag({[Title |-> "Z9", Body |-> "yy"]})
    /\ Stored("Z9", "")

(***************************************************************************)
(* C15.  Redirect chains end within two redirects.  A client follows the   *)
(* Location of every 301 or 302 it gets; between two of its requests other *)
(* requests may have changed the store in any way, and each of its         *)
(* requests may meet any read fault, template outcome or save error.       *)
(* Chain[n][path] is the largest number of redirects such a client can be  *)
(* sent through within n requests when it starts at path.  Followed for    *)
(* MaxFollow requests (Hops), no start gives more than two; from a view     *)
(* path at most one; from an edit path none.  The same holds of the        *)
(* response of every step taken, and of every view and edit served on the  *)
(* store as it is.                                                         *)
(***************************************************************************)
IsRedirect(resp) == resp.status \in {301, 302}

\* The stores a request of the client can find: any set of page files with
\* any bodies.
AllStores == UNION {[D -> Bodies] : D \in SUBSET {FileName(t) : t \in Titles}}

\* Every response a request for path can get on one of the stores.
Responses(path, stores) ==
    {Serve(path, fs, fault, outcome, saveErr) :
        fs \in stores, fault \in ReadFaults, outcome \in RenderOutcomes,
        saveErr \in {"", "EACCES", "EIO", "short write"}}

Answers == [path \in Paths |-> Responses(path, AllStores)]

\* The redirects that follow a response: none after a final one, one more
\* than from its Location otherwise (and more than any chain allowed when
\* the Location is no path of the server).
After(resp, from) ==
    IF ~IsRedirect(resp) THEN 0
    ELSE IF resp.loc \in Paths THEN 1 + from[resp.loc]
    ELSE MaxFollow + 1

Largest(S) == CHOOSE n \in S : \A m \in S : m <= n

Chain[n \in 0..MaxFollow] ==
    [path \in Paths |->
        IF n = 0 THEN 0
        ELSE Largest({After(resp, Chain[n - 1]) : resp \in Answers[path]})]

Hops == [path \in Paths |-> Chain[MaxFollow][path]]

RedirectChainsEnd ==
    /\ \A path \in Paths :
          /\ Hops[path] <= 2
          /\ Route[path].call = "viewHandler" => Hops[path] <= 1
          /\ Route[path].call = "editHandler" => Hops[path] = 0
    /\ Served => After(last.resp, Hops) <= 2
    /\ last.fn = "viewHandler" => After(last.resp, Hops) <= 1
    /\ last.fn = "editHandler" => ~IsRedirect(last.resp)
    /\ \A t \in Titles : \A fault \in ReadFaults, outcome \in RenderOutcomes :
          /\ After(viewHandler(t, files, fault, outcome), Hops) <= 1
          /\ ~IsRedirect(editHandler(t, files, fault, outcome))

\* The second redirect of a chain: after a save stored "yy" for Z9, the view
\* of Z9 could not read it and sent the client on to /edit/Z9.
RedirectChainsEndWitness ==
    /\ last.path = "/view/Z9"
    /\ IsRedirect(last.resp) /\ last.resp.loc = "/edit/Z9"
    /\ settled["Z9"] = {"yy"} /\ Stored("Z9", "yy")

(***************************************************************************)
(* C16.  State unchanged on save failure: when a save request for T, the   *)
(* only save of T at work, ends with the 500 answer, the body stored for T *)
(* is the one a completed save had stored before the request came.         *)
(***************************************************************************)
FailedSaveChangesNothing ==
    [][\A t \in Titles : \A bOld \in settled[t] :
          (/\ last'.fn = "saveHandler" /\ last'.title = t
           /\ last'.resp.status = 500
           /\ t \notin raced
           /\ Saving(inflight', t) = {})
          => /\ FileName(t) \in DOMAIN files'
             /\ files'[FileName(t)] = bOld]_vars

====
